---- MODULE Spec2Model ----
(***************************************************************************)
(* Model of google/colab/_interactive_table_hint_button.py: the dataframe  *)
(* formatter that adds a "convert to interactive" button, its two caches   *)
(* (_noninteractive_df_refs, a WeakValueDictionary, and                    *)
(* _last_noninteractive_df, a one-entry dict), the output callback         *)
(* registration and the enable/disable of the formatter on the shell.      *)
(***************************************************************************)
EXTENDS Integers, FiniteSets, Sequences, TLC

\* Bounds of the model: renders and conversions per run.
MaxRenders == 2
MaxCalls == 3

VARIABLES
  held,          \* dataframe objects the user still references strongly
  refs,          \* _noninteractive_df_refs: key -> dataframe object (weak values)
  last,          \* _last_noninteractive_df: key -> shallow copy
  callbacks,     \* _output_callbacks: name -> registration result
  hostCallbacks, \* the host's callback registry: sequence of register_callback calls
  shell,         \* whether _IPython.get_ipython() returns a shell
  formatters,    \* shell.display_formatter.formatters: mime key -> (type name -> func)
  original,      \* _original_formatters: mime key -> func
  ret,           \* the value returned by the most recent call
  stdout,        \* number of error lines printed by _get_dataframe
  issued,        \* history: one record per render, [key, df]
  calls,         \* history: key -> number of _convert_to_interactive calls
  tables,        \* history: key -> number of those calls that returned a data table
  pre,           \* history: where the key of the most recent conversion was found
  fcall,         \* history: the most recent enable/disable call
  hostFormatter  \* history: the DataFrame formatter the host had at start

vars == <<held, refs, last, callbacks, hostCallbacks, shell, formatters,
          original, ret, stdout, issued, calls, tables, pre, fcall,
          hostFormatter>>

cacheVars == <<held, refs, last, callbacks, hostCallbacks, ret, stdout,
               issued, calls, tables, pre>>
fmtVars == <<shell, formatters, original, fcall, hostFormatter>>

----------------------------------------------------------------------------
\* Values.

\* The dataframe objects of the user's session.
Objs == {"df_a", "df_b"}

NoneV == [type |-> "None"]

\* A dataframe object, and dataframe.copy(deep=False): a new object on the same data.
Df(o) == [type |-> "DataFrame", data |-> o, shallow |-> FALSE]
Copy(df) == [type |-> "DataFrame", data |-> df.data, shallow |-> TRUE]

DataTable(df) == [type |-> "DataTable", dataframe |-> df]

Empty == [x \in {} |-> x]
Remove(f, k) == [x \in DOMAIN f \ {k} |-> f[x]]

\* 'df-' + str(uuid): the n-th uuid4 of the run is represented by n; uuid4 values
\* do not repeat.
DfKey(u) == <<"df-", u>>
uuid4 == Len(issued) + 1

\* A key no render ever issued.
StaleKey == <<"df-", 0>>
IssuedKeys == {issued[i].key : i \in 1 .. Len(issued)}
CallKeys == IssuedKeys \cup {StaleKey}

convert_func == "convertToInteractive"
HtmlMime == "text/html"
DfType == "pandas.core.frame.DataFrame"
NoFunc == "None"
HintFormatter == "_df_formatter_with_interactive_hint"
HostFormatters == {NoFunc, "pandas_repr_html"}

\* The record kept of an enable/disable call. For an enable: fresh says whether
\* it found _original_formatters empty, before is the DataFrame registry it found.
\* For a disable: afterEnable says whether the previous enable/disable call was an
\* enable, and fresh and before are that enable's.
NoCall == [type |-> "none", afterEnable |-> FALSE, fresh |-> FALSE, before |-> Empty]

\* The registry of one mime formatter with function f registered for DataFrame
\* (nothing registered when f is None).
Registry(f) == IF f = NoFunc THEN Empty ELSE (DfType :> f)

----------------------------------------------------------------------------
Init ==
  /\ held = Objs
  /\ refs = Empty
  /\ last = Empty
  /\ callbacks = Empty
  /\ hostCallbacks = <<>>
  /\ shell \in BOOLEAN
  /\ hostFormatter \in HostFormatters
  /\ formatters = (HtmlMime :> Registry(hostFormatter))
  /\ original = Empty
  /\ ret = NoneV
  /\ stdout = 0
  /\ issued = <<>>
  /\ calls = (StaleKey :> 0)
  /\ tables = (StaleKey :> 0)
  /\ pre = NoneV
  /\ fcall = NoCall

----------------------------------------------------------------------------
\* Variants of _get_dataframe with a plausible slip each: one that looks only in
\* the weak cache; one without the elif branch; one that reads the last-dataframe
\* entry without popping it; one that prints nothing for a missing key.
get_dataframe_weak_only(key) ==
  IF key \in DOMAIN refs
  THEN [df |-> refs[key], last |-> last, refs |-> Remove(refs, key), printed |-> 0]
  ELSE [df |-> NoneV, last |-> last, refs |-> refs, printed |-> 1]

get_dataframe_last_only(key) ==
  IF key \in DOMAIN last
  THEN [df |-> last[key], last |-> Remove(last, key), refs |-> refs, printed |-> 0]
  ELSE [df |-> NoneV, last |-> last, refs |-> refs, printed |-> 1]

get_dataframe_no_pop(key) ==
  IF key \in DOMAIN last
  THEN [df |-> last[key], last |-> last, refs |-> refs, printed |-> 0]
  ELSE IF key \in DOMAIN refs
  THEN [df |-> refs[key], last |-> last, refs |-> Remove(refs, key), printed |-> 0]
  ELSE [df |-> NoneV, last |-> last, refs |-> refs, printed |-> 1]

get_dataframe_silent(key) ==
  IF key \in DOMAIN last
  THEN [df |-> last[key], last |-> Remove(last, key), refs |-> refs, printed |-> 0]
  ELSE IF key \in DOMAIN refs
  THEN [df |-> refs[key], last |-> last, refs |-> Remove(refs, key), printed |-> 0]
  ELSE [df |-> NoneV, last |-> last, refs |-> refs, printed |-> 0]

\* _get_dataframe(key): the dataframe found (None when in neither cache), the two
\* caches after the pop, and the number of error lines printed.
get_dataframe(key) ==
  IF key \in DOMAIN last
  THEN [df |-> last[key], last |-> Remove(last, key), refs |-> refs, printed |-> 0]
  ELSE IF key \in DOMAIN refs
  THEN [df |-> refs[key], last |-> last, refs |-> Remove(refs, key), printed |-> 0]
  ELSE [df |-> NoneV, last |-> last, refs |-> refs, printed |-> 1]

\* The value _convert_to_interactive returns for what _get_dataframe found.
convert_result(df) == IF df # NoneV THEN DataTable(df) ELSE NoneV

get_last_dataframe_key ==
  IF DOMAIN last # {} THEN CHOOSE k \in DOMAIN last : TRUE ELSE NoneV

RECURSIVE SumOf(_, _)
SumOf(f, S) ==
  IF S = {} THEN 0
  ELSE LET k == CHOOSE x \in S : TRUE IN f[k] + SumOf(f, S \ {k})

TotalCalls == SumOf(calls, DOMAIN calls)

convert_to_interactive(key) ==
  LET got == get_dataframe(key)
      result == convert_result(got.df)
  IN /\ TotalCalls < MaxCalls
     /\ last' = got.last
     /\ refs' = got.refs
     /\ stdout' = stdout + got.printed
     /\ ret' = result
     /\ calls' = [calls EXCEPT ![key] = @ + 1]
     /\ tables' = [tables EXCEPT ![key] = IF result # NoneV THEN @ + 1 ELSE @]
     /\ pre' = [type |-> "lookup", key |-> key,
                inLast |-> key \in DOMAIN last, inRefs |-> key \in DOMAIN refs]
     /\ UNCHANGED <<held, callbacks, hostCallbacks, issued>>
     /\ UNCHANGED fmtVars

----------------------------------------------------------------------------
\* Variant: a key that does not change from one render to the next.
new_key_fixed == DfKey(1)

\* key = 'df-' + str(_uuid.uuid4())
new_key == DfKey(uuid4)

\* _noninteractive_df_refs[key] = dataframe
store_weak(key, dataframe) == (key :> dataframe) @@ refs

\* Variant: the entry is added without clearing the dict first.
store_last_no_clear(key, dataframe) == (key :> Copy(dataframe)) @@ last

\* _last_noninteractive_df.clear(); _last_noninteractive_df[key] = copy
store_last(key, dataframe) == (key :> Copy(dataframe))

\* Variant: the callback is registered on every render.
register_callback_always ==
  [callbacks |-> (convert_func :> "registered") @@ callbacks,
   host |-> Append(hostCallbacks, convert_func)]

\* Registration of the output callback, on the first render only.
register_callback ==
  IF convert_func \notin DOMAIN callbacks
  THEN [callbacks |-> (convert_func :> "registered") @@ callbacks,
        host |-> Append(hostCallbacks, convert_func)]
  ELSE [callbacks |-> callbacks, host |-> hostCallbacks]

\* The three places of the button's HTML that carry the key.
get_button_html(key) ==
  [type |-> "button", onclick |-> key, buttonSelector |-> key,
   elementSelector |-> key]

get_html(dataframe, key, buttons) ==
  [type |-> "html", id |-> key, df_html |-> dataframe.data, buttons |-> buttons]

OtherButton == [type |-> "other-button"]
\* The buttons argument: None (not given), an empty list or a list of buttons.
ButtonArgs ==
  {[given |-> FALSE, list |-> <<>>], [given |-> TRUE, list |-> <<>>],
   [given |-> TRUE, list |-> <<OtherButton>>]}

\* if not buttons: buttons = []; buttons.insert(0, ...)
with_hint_button(buttons, html) ==
  <<html>> \o (IF ~buttons.given \/ buttons.list = <<>> THEN <<>> ELSE buttons.list)

df_formatter_with_interactive_hint(o, buttons) ==
  LET dataframe == Df(o)
      key == new_key
      reg == register_callback
  IN /\ Len(issued) < MaxRenders
     /\ o \in held
     /\ refs' = store_weak(key, dataframe)
     /\ last' = store_last(key, dataframe)
     /\ callbacks' = reg.callbacks
     /\ hostCallbacks' = reg.host
     /\ ret' = get_html(dataframe, key,
                        with_hint_button(buttons, get_button_html(key)))
     /\ issued' = Append(issued, [key |-> key, df |-> dataframe])
     /\ calls' = calls @@ (key :> 0)
     /\ tables' = tables @@ (key :> 0)
     /\ UNCHANGED <<held, stdout, pre>>
     /\ UNCHANGED fmtVars

----------------------------------------------------------------------------
\* The user drops the last strong reference to a dataframe and the object is
\* reclaimed: the WeakValueDictionary drops every entry whose value it was. (An
\* unreferenced object that is not reclaimed yet behaves, for this module, as a
\* referenced one: its entries stay.)
Collect(o) ==
  /\ o \in held
  /\ held' = held \ {o}
  /\ refs' = [k \in {x \in DOMAIN refs : refs[x] # Df(o)} |-> refs[k]]
  /\ UNCHANGED <<last, callbacks, hostCallbacks, ret, stdout, issued,
                 calls, tables, pre>>
  /\ UNCHANGED fmtVars

----------------------------------------------------------------------------
\* IPython's BaseFormatter.for_type_by_name(module, name, func): returns the
\* function registered so far (None when there is none) and registers func
\* unless func is None.
for_type_by_name(reg, func) ==
  [old |-> IF DfType \in DOMAIN reg THEN reg[DfType] ELSE NoFunc,
   reg |-> IF func # NoFunc THEN (DfType :> func) @@ reg ELSE reg]

\* Variant: the hint formatter is not popped before the original is restored.
formatter_pop_skipped(reg) == reg

\* IPython's BaseFormatter.pop(typ, None)
formatter_pop(reg) == Remove(reg, DfType)

\* Variant: enable without the "key not in _original_formatters" test.
enable_effect_unguarded ==
  IF shell
  THEN LET r == for_type_by_name(formatters[HtmlMime], HintFormatter)
       IN [formatters |-> [formatters EXCEPT ![HtmlMime] = r.reg],
           original |-> (HtmlMime :> r.old) @@ original]
  ELSE [formatters |-> formatters, original |-> original]

enable_effect ==
  IF shell /\ HtmlMime \notin DOMAIN original
  THEN LET r == for_type_by_name(formatters[HtmlMime], HintFormatter)
       IN [formatters |-> [formatters EXCEPT ![HtmlMime] = r.reg],
           original |-> (HtmlMime :> r.old) @@ original]
  ELSE [formatters |-> formatters, original |-> original]

enable_df_interactive_hint_formatter ==
  /\ formatters' = enable_effect.formatters
  /\ original' = enable_effect.original
  /\ fcall' = [type |-> "enable", afterEnable |-> FALSE,
               fresh |-> HtmlMime \notin DOMAIN original,
               before |-> formatters[HtmlMime]]
  /\ UNCHANGED <<shell, hostFormatter>>
  /\ UNCHANGED cacheVars

disable_effect ==
  IF shell /\ HtmlMime \in DOMAIN original
  THEN LET r == for_type_by_name(formatter_pop(formatters[HtmlMime]),
                                 original[HtmlMime])
       IN [formatters |-> [formatters EXCEPT ![HtmlMime] = r.reg],
           original |-> Remove(original, HtmlMime)]
  ELSE [formatters |-> formatters, original |-> original]

disable_df_interactive_hint_formatter ==
  /\ formatters' = disable_effect.formatters
  /\ original' = disable_effect.original
  /\ fcall' = IF fcall.type = "enable"
              THEN [fcall EXCEPT !.type = "disable", !.afterEnable = TRUE]
              ELSE [NoCall EXCEPT !.type = "disable"]
  /\ UNCHANGED <<shell, hostFormatter>>
  /\ UNCHANGED cacheVars

----------------------------------------------------------------------------
Next ==
  \/ \E o \in Objs, b \in ButtonArgs : df_formatter_with_interactive_hint(o, b)
  \/ \E k \in CallKeys : convert_to_interactive(k)
  \/ \E o \in Objs : Collect(o)
  \/ enable_df_interactive_hint_formatter
  \/ disable_df_interactive_hint_formatter

Spec == Init /\ [][Next]_vars

----------------------------------------------------------------------------
\* Steps, as seen from the history variables.

\* The step is a render; RenderedKey and RenderedDf are its key and dataframe.
IsRender == Len(issued') = Len(issued) + 1
RenderedKey == issued'[Len(issued')].key
RenderedDf == issued'[Len(issued')].df

\* The step is a call _convert_to_interactive(k).
IsConvert(k) == calls'[k] = calls[k] + 1

\* The key of the most recent render, and the dataframe rendered under a key.
HasRendered == Len(issued) > 0
LatestKey == issued[Len(issued)].key
LatestDf == issued[Len(issued)].df
DfOf(k) == issued[CHOOSE i \in 1 .. Len(issued) : issued[i].key = k].df

\* The most recent call was a conversion that returned / did not return a table.
ConvertedToTable == pre.type = "lookup" /\ ret.type = "DataTable"
ConvertedToNone == pre.type = "lookup" /\ ret = NoneV

HostRegistry == Registry(hostFormatter)

----------------------------------------------------------------------------
\* C1: _last_noninteractive_df never holds more than one entry, and right after a
\* render it holds exactly one entry, whose key is the key of that render.
C1_LastHoldsOnlyLatestRender ==
  [][ /\ Cardinality(DOMAIN last') <= 1
      /\ IsRender => DOMAIN last' = {RenderedKey} ]_vars

C1_Witness ==
  /\ Len(issued) = 2
  /\ ret.type = "html"
  /\ DOMAIN last = {LatestKey}
  /\ get_last_dataframe_key = ret.id
  /\ Cardinality(DOMAIN refs) = 2

\* C2: the first _convert_to_interactive(k) after the render of key k, with no
\* other render in between, returns a data table built from the rendered
\* dataframe, whether or not the original object is still alive.
C2_FirstConvertOfLatestSucceeds ==
  [][ \A k \in DOMAIN calls :
        (IsConvert(k) /\ HasRendered /\ k = LatestKey /\ calls[k] = 0)
          => /\ ret'.type = "DataTable"
             /\ ret'.dataframe.data = LatestDf.data ]_vars

\* The conversion found the key in the last-dataframe cache only: the original
\* object had been collected before the call.
C2_Witness ==
  /\ ConvertedToTable
  /\ HasRendered
  /\ pre.key = LatestKey
  /\ calls[pre.key] = 1
  /\ pre.inLast /\ ~pre.inRefs
  /\ LatestDf.data \notin held
  /\ ret.dataframe.data = LatestDf.data

\* C3 as stated: with a shell, a disable that directly follows an enable leaves
\* the DataFrame registry as it was before that enable, and _original_formatters
\* empty.
C3_AsStated ==
  (shell /\ fcall.type = "disable" /\ fcall.afterEnable)
    => /\ formatters[HtmlMime] = fcall.before
       /\ original = Empty

\* C3, amended: the same, for an enable that found _original_formatters empty
\* (the hint formatter was not enabled already).
C3_EnableDisableRestores ==
  (shell /\ fcall.type = "disable" /\ fcall.afterEnable /\ fcall.fresh)
    => /\ formatters[HtmlMime] = fcall.before
       /\ original = Empty

\* The round trip from "no formatter registered".
C3_Witness ==
  /\ shell
  /\ fcall.type = "disable" /\ fcall.afterEnable /\ fcall.fresh
  /\ hostFormatter = NoFunc
  /\ fcall.before = Empty
  /\ formatters[HtmlMime] = Empty
  /\ original = Empty

\* C4: _convert_to_interactive(k) for a key in neither cache returns None, prints
\* the error line and leaves both caches as they were.
C4_MissingKeyReportsError ==
  [][ \A k \in DOMAIN calls :
        (IsConvert(k) /\ k \notin DOMAIN last /\ k \notin DOMAIN refs)
          => /\ ret' = NoneV
             /\ stdout' = stdout + 1
             /\ last' = last
             /\ refs' = refs ]_vars

\* A key that was rendered, replaced by a newer render and never converted, whose
\* object was then collected.
C4_Witness ==
  /\ ConvertedToNone
  /\ pre.key \in IssuedKeys
  /\ pre.key # LatestKey
  /\ ~pre.inLast /\ ~pre.inRefs
  /\ tables[pre.key] = 0
  /\ DfOf(pre.key).data \notin held
  /\ stdout >= 1

\* C5: the key in the HTML of a render (the container id, the argument of the
\* button's convertToInteractive call, the two selectors of the script) is the key
\* under which the render stored the dataframe in both caches, and differs from
\* the key of every earlier render.
C5_HtmlKeyIsCacheKey ==
  [][ IsRender =>
        LET k == RenderedKey
            button == ret'.buttons[1]
        IN /\ ret'.type = "html"
           /\ ret'.id = k
           /\ button.onclick = k
           /\ button.buttonSelector = k
           /\ button.elementSelector = k
           /\ k \in DOMAIN refs' /\ refs'[k] = RenderedDf
           /\ k \in DOMAIN last' /\ last'[k] = Copy(RenderedDf)
           /\ k \notin IssuedKeys ]_vars

C5_Witness ==
  /\ Len(issued) = 2
  /\ issued[1].key # issued[2].key
  /\ ret.type = "html"
  /\ ret.id = LatestKey
  /\ Len(ret.buttons) = 2
  /\ ret.buttons[1].onclick = LatestKey
  /\ LatestKey \in DOMAIN last
  /\ LatestKey \in DOMAIN refs

\* C6: for a rendered key that is no longer the most recent one,
\* _convert_to_interactive(k) returns a data table (of the original object) exactly
\* when the key still has its weak entry, and None otherwise.
C6_OlderKeyNeedsLiveObject ==
  [][ \A k \in IssuedKeys :
        (IsConvert(k) /\ k # LatestKey)
          => IF k \in DOMAIN refs
             THEN ret' = DataTable(DfOf(k))
             ELSE ret' = NoneV ]_vars

C6_Witness ==
  /\ ConvertedToTable
  /\ pre.key \in IssuedKeys
  /\ pre.key # LatestKey
  /\ ~pre.inLast /\ pre.inRefs
  /\ ret = DataTable(DfOf(pre.key))
  /\ ~ret.dataframe.shallow

\* C7: a conversion that returns a table removes the key from one cache only, the
\* last-dataframe cache when the key is there and the weak cache otherwise; so a
\* key yields a table at most twice, and None after that.
C7_AtMostTwoTablesPerKey ==
  [][ \A k \in DOMAIN calls :
        IsConvert(k)
          => /\ ret' # NoneV
                  => IF k \in DOMAIN last
                     THEN last' = Remove(last, k) /\ refs' = refs
                     ELSE /\ k \in DOMAIN refs
                          /\ refs' = Remove(refs, k)
                          /\ last' = last
             /\ tables'[k] <= 2
             /\ tables[k] = 2 => ret' = NoneV ]_vars

C7_Witness ==
  /\ ConvertedToNone
  /\ pre.key \in IssuedKeys
  /\ calls[pre.key] = 3
  /\ tables[pre.key] = 2
  /\ DfOf(pre.key).data \in held

\* C8: with a shell, the formatter saved in _original_formatters is never the hint
\* formatter; an enable that follows an enable changes neither the registry nor
\* the saved formatter; and a disable leaves the registry as the host had it.
C8_SavedFormatterIsNeverHint ==
  [][ shell =>
        /\ HtmlMime \in DOMAIN original' => original'[HtmlMime] # HintFormatter
        /\ (fcall.type = "enable" /\ fcall'.type = "enable")
             => formatters' = formatters /\ original' = original
        /\ fcall'.type = "disable"
             => formatters'[HtmlMime] = HostRegistry /\ original' = Empty ]_vars

\* enable, enable, disable, from a host that had a formatter registered.
C8_Witness ==
  /\ shell
  /\ fcall.type = "disable" /\ fcall.afterEnable /\ ~fcall.fresh
  /\ hostFormatter # NoFunc
  /\ formatters[HtmlMime] = HostRegistry
  /\ original = Empty

\* C9: the convertToInteractive callback is registered with the host at most
\* once, by the first render; a later render leaves _output_callbacks as it is.
C9_CallbackRegisteredOnce ==
  [][ /\ Len(hostCallbacks') <= 1
      /\ (IsRender /\ ~HasRendered) => hostCallbacks' = <<convert_func>>
      /\ (IsRender /\ HasRendered)
           => callbacks' = callbacks /\ hostCallbacks' = hostCallbacks ]_vars

C9_Witness ==
  /\ Len(issued) = 2
  /\ hostCallbacks = <<convert_func>>
  /\ DOMAIN callbacks = {convert_func}

====
